---- MODULE Spec2Model ----
(***************************************************************************)
(* A model of casadi's IDAS integrator plugin (idas_interface.cpp): the   *)
(* integration session (init, init_memory, reset, advance, resetB,        *)
(* retreat) as a state machine driving the external IDAS engine, and the  *)
(* status translator and the solver callbacks as operators.               *)
(*                                                                         *)
(* Time is counted in ticks of 0.5e-9, so that the tolerance ttol = 1e-9  *)
(* of advance is two ticks and "within tolerance but not equal" exists.   *)
(* The contents of the vectors are not modelled: each operation records  *)
(* which fields of the memory and which buffers of its caller it wrote,   *)
(* and from what.  The engine is external, and each of its calls may      *)
(* return a negative status.                                              *)
(***************************************************************************)
EXTENDS Integers, Sequences, FiniteSets, TLC

VARIABLES cfg, opts, self, pc, m, eng, writes, last, calls, rep, redo, cb

vars == <<cfg, opts, self, pc, m, eng, writes, last, calls, rep, redo, cb>>

---------------------------------------------------------------------------
(* Bounds of the model *)

\* grid_.front(): the start time t0 of the time grid
T0 == 1
\* grid_.back(): the end time tf of the time grid
TF == 3
\* the largest time a caller requests
MaxT == 4
\* the longest option vector (init_xdot, abstolv) a caller supplies
MaxLen == 3
\* the largest integer a model evaluation throws
MaxThrow == 2
\* the most backward problems the engine is asked to create
MaxB == 2

\* double ttol = 1e-9, in ticks
ttol == 2

IDA_SUCCESS == 0

grid == <<T0, TF>>

Front(g) == g[1]

Back(g) == g[Len(g)]

Times == 0..MaxT

Abs(x) == IF x < 0 THEN -x ELSE x

\* std::vector<double>(n, v)
Vec(n, v) == [i \in 1..n |-> v]

---------------------------------------------------------------------------
(* The status translator *)

\* IDAGetReturnFlagName (idas_io.c): the symbolic name of a status
IDAGetReturnFlagName(flag) ==
  CASE flag = 0 -> "IDA_SUCCESS"
    [] flag = 1 -> "IDA_TSTOP_RETURN"
    [] flag = 2 -> "IDA_ROOT_RETURN"
    [] flag = -1 -> "IDA_TOO_MUCH_WORK"
    [] flag = -2 -> "IDA_TOO_MUCH_ACC"
    [] flag = -3 -> "IDA_ERR_FAIL"
    [] flag = -4 -> "IDA_CONV_FAIL"
    [] flag = -22 -> "IDA_ILL_INPUT"
    [] flag = -103 -> "IDA_NO_BCK"
    [] OTHER -> "NONE"

\* THROWING(fcn, ...): the call site handed to idas_error is the text of
\* fcn followed by where the macro was expanded
CallSite(fcn) == <<fcn, " on line N of file idas_interface.cpp">>

\* a mutant of idas_error: the zero status is taken for a failure too
idas_error_strict(module, flag) ==
  IF flag > IDA_SUCCESS
    THEN [thrown |-> FALSE, msg |-> <<>>]
    ELSE [thrown |-> TRUE,
          msg |-> module \o <<" returned \"", IDAGetReturnFlagName(flag),
                              "\".", " Consult IDAS documentation.">>]

\* IdasInterface::idas_error: returns on a status >= IDA_SUCCESS, and
\* otherwise throws (casadi_error) the message built from the call site and
\* the flag name
idas_error(module, flag) ==
  IF flag >= IDA_SUCCESS
    THEN [thrown |-> FALSE, msg |-> <<>>]
    ELSE [thrown |-> TRUE,
          msg |-> module \o <<" returned \"", IDAGetReturnFlagName(flag),
                              "\".", " Consult IDAS documentation.">>]

---------------------------------------------------------------------------
(* Options and IdasInterface::init *)

\* the keys of IdasInterface::options_, in the order a Dict (a std::map)
\* iterates them
OptionKeys ==
  <<"abstolv", "calc_ic", "calc_icB", "cj_scaling", "extra_fsens_calc_ic",
    "first_time", "fsens_abstolv", "init_xdot", "max_step_size",
    "suppress_algebraic">>

\* the Dict holding the entries of choice function d (a key is left out
\* where d[key] is the empty sequence), in key order
RECURSIVE MakeDict(_, _)
MakeDict(d, i) ==
  IF i > Len(OptionKeys) THEN <<>>
  ELSE IF d[OptionKeys[i]] = <<>> THEN MakeDict(d, i + 1)
  ELSE <<<<OptionKeys[i], d[OptionKeys[i]][1]>>>> \o MakeDict(d, i + 1)

HasKey(o, key) == \E i \in 1..Len(o) : o[i][1] = key

Value(o, key) == o[CHOOSE i \in 1..Len(o) : o[i][1] = key][2]

\* the members of IdasInterface before init: the vectors are empty
self0 ==
  [init_xdot |-> <<>>, abstolv |-> <<>>, fsens_abstolv |-> <<>>,
   cj_scaling |-> FALSE, calc_ic |-> FALSE, suppress_algebraic |-> FALSE,
   max_step_size |-> 0, calc_icB |-> FALSE, first_time |-> 0]

\* init: "Default options"
DefaultOptions(s) ==
  [s EXCEPT !.cj_scaling = FALSE, !.calc_ic = TRUE,
            !.suppress_algebraic = FALSE, !.max_step_size = 0]

\* init: one turn of the "Read options" loop
ReadOption(s, op) ==
  IF op[1] = "init_xdot" THEN [s EXCEPT !.init_xdot = op[2]]
  ELSE IF op[1] = "cj_scaling" THEN [s EXCEPT !.cj_scaling = op[2]]
  ELSE IF op[1] = "calc_ic" THEN [s EXCEPT !.calc_ic = op[2]]
  ELSE IF op[1] = "suppress_algebraic"
    THEN [s EXCEPT !.suppress_algebraic = op[2]]
  ELSE IF op[1] = "max_step_size" THEN [s EXCEPT !.max_step_size = op[2]]
  ELSE IF op[1] = "abstolv" THEN [s EXCEPT !.abstolv = op[2]]
  ELSE IF op[1] = "fsens_abstolv" THEN [s EXCEPT !.fsens_abstolv = op[2]]
  ELSE s

RECURSIVE ReadOptions(_, _, _)
ReadOptions(s, o, i) ==
  IF i > Len(o) THEN s ELSE ReadOptions(ReadOption(s, o[i]), o, i + 1)

\* a mutant of DefaultDependentOptions: calc_icB is on by default whatever
\* calc_ic is
DefaultDependentOptionsOn(s) ==
  [s EXCEPT !.calc_icB = TRUE, !.first_time = Back(grid)]

\* init: "Default dependent options"
DefaultDependentOptions(s) ==
  [s EXCEPT !.calc_icB = s.calc_ic, !.first_time = Back(grid)]

\* init: one turn of the "Read dependent options" loop
ReadDependentOption(s, op) ==
  IF op[1] = "calc_icB" THEN [s EXCEPT !.calc_icB = op[2]]
  ELSE IF op[1] = "first_time" THEN [s EXCEPT !.first_time = op[2]]
  ELSE s

RECURSIVE ReadDependentOptions(_, _, _)
ReadDependentOptions(s, o, i) ==
  IF i > Len(o) THEN s
  ELSE ReadDependentOptions(ReadDependentOption(s, o[i]), o, i + 1)

\* a mutant of InitXdot: a supplied init_xdot is kept whatever its length
InitXdotUnchecked(s, nx) ==
  IF s.init_xdot = <<>>
    THEN [ok |-> TRUE, self |-> [s EXCEPT !.init_xdot = Vec(nx, 0)]]
    ELSE [ok |-> TRUE, self |-> s]

\* init: "Get initial conditions for the state derivatives"
InitXdot(s, nx) ==
  IF s.init_xdot = <<>>
    THEN [ok |-> TRUE, self |-> [s EXCEPT !.init_xdot = Vec(nx, 0)]]
    ELSE IF Len(s.init_xdot) = nx
      THEN [ok |-> TRUE, self |-> s]
      ELSE [ok |-> FALSE, self |-> s]

\* IdasInterface::init(opts): the members after the call and whether the
\* casadi_assert_message on init_xdot passed
init(s, o, c) ==
  InitXdot(
    ReadDependentOptions(
      DefaultDependentOptions(ReadOptions(DefaultOptions(s), o, 1)), o, 1),
    c.nx)

---------------------------------------------------------------------------
(* Calls into the engine *)

\* THROWING(fcn, args): a call whose status goes through idas_error
Call(fcn, args) == [fn |-> fcn, args |-> args, wrapped |-> TRUE]

\* fcn(args): a call whose status is dropped
Bare(fcn, args) == [fn |-> fcn, args |-> args, wrapped |-> FALSE]

\* the status the engine returns to call c when the call st.fn is the one
\* that returns st.flag
Status(c, st) == IF c.fn = st.fn THEN st.flag ELSE IDA_SUCCESS

Raises(c, st) == c.wrapped /\ idas_error(CallSite(c.fn), Status(c, st)).thrown

Raising(plan, st) == {i \in 1..Len(plan) : Raises(plan[i], st)}

First(S) == CHOOSE i \in S : \A j \in S : i <= j

\* the calls of plan made, in order, up to the first one that raises: the
\* log of the calls with their statuses, whether the operation threw, and
\* the message thrown
Run(plan, st) ==
  LET raising == Raising(plan, st)
      stop == IF raising = {} THEN Len(plan) ELSE First(raising)
  IN [log |-> [i \in 1..stop |->
                 [fn |-> plan[i].fn, args |-> plan[i].args,
                  wrapped |-> plan[i].wrapped, flag |-> Status(plan[i], st)]],
      threw |-> raising # {},
      msg |-> IF raising = {} THEN <<>>
              ELSE idas_error(CallSite(plan[stop].fn),
                              Status(plan[stop], st)).msg]

\* the ways the calls of plan can run, one for each way of ways
Runs(plan, ways) == {Run(plan, st) : st \in ways}

\* call fcn was made and returned a status that let the operation go on
Passed(r, fcn) ==
  \E i \in 1..Len(r.log) :
    r.log[i].fn = fcn /\ ~(r.threw /\ i = Len(r.log))

\* call fcn was made and the engine did what it was asked
Succeeded(r, fcn) ==
  \E i \in 1..Len(r.log) : r.log[i].fn = fcn /\ r.log[i].flag >= IDA_SUCCESS

Made(log, fcn) == \E i \in 1..Len(log) : log[i].fn = fcn

Fns(plan) == {plan[i].fn : i \in 1..Len(plan)}

\* the negative statuses a failing engine call returns
FailFlags == {-22}

AllSucceed == [fn |-> "none", flag |-> IDA_SUCCESS]

\* the ways the calls of plan can end: every call succeeds, or one of them
\* returns a negative status
Outcomes(plan) ==
  {AllSucceed} \cup {[fn |-> g, flag |-> f] : g \in Fns(plan), f \in FailFlags}

When(b, s) == IF b THEN s ELSE <<>>

NoError == [op |-> "none", t |-> 0, err |-> "none", msg |-> <<>>]

\* calls 1..k of the plan were made and let the operation go on
Completed(r, k) == Len(r.log) > k \/ (Len(r.log) = k /\ ~r.threw)

---------------------------------------------------------------------------
(* The session *)

\* IdasMemory::IdasMemory: mem, xzdot and rxzdot are null.  t, first_callB
\* and whichB are set by no constructor; they hold a placeholder that no
\* operation reads before it is assigned.
IdasMemory ==
  [mem |-> 0, xzdot |-> 0, rxzdot |-> 0,
   t |-> 0, first_callB |-> FALSE, whichB |-> 0]

\* the engine before IDACreate
NoEngine ==
  [created |-> FALSE, tn |-> 0, tstop |-> <<>>,
   adj |-> FALSE, nB |-> 0, ls |-> <<>>, lsB |-> <<>>]

NoCallback == [name |-> "none"]

\* the settings the base class SundialsInterface::init reads, with the
\* dimensions of the problem
Settings(nx, nz, nq, nrx, nrz, nrq, stop, iter, itsol, precon, qec) ==
  [nx |-> nx, nz |-> nz, nq |-> nq, nrx |-> nrx, nrz |-> nrz, nrq |-> nrq,
   stop_at_end |-> stop, iterative |-> iter, itsol |-> itsol,
   use_precon |-> precon, quad_err_con |-> qec]

Booleans == {TRUE, FALSE}

\* an entry of the option dictionary: left out, or one of vals
Maybe(vals) == {<<>>} \cup {<<v>> : v \in vals}

\* the locations an operation writes: a field of the memory ("m.xz") or a
\* buffer of the caller ("x"), each with what was written to it
Wrote(b, locs, src) == IF b THEN {<<l, src>> : l \in locs} ELSE {}

\* init_memory, "attach a linear solver": the Krylov solver of itsol_
Krylov(itsol) ==
  CASE itsol = "SD_GMRES" -> "IDASpgmr"
    [] itsol = "SD_BCGSTAB" -> "IDASpbcg"
    [] itsol = "SD_TFQMR" -> "IDASptfqmr"

\* the calls of init_memory after IDACreate, in order
InitMemoryPlan(c, s) ==
  <<Call("IDASetErrHandlerFn", <<>>), Call("IDASetUserData", <<>>),
    Bare("IDAInit", <<0>>),
    Call("IDASetSuppressAlg", <<s.suppress_algebraic>>),
    Call("IDASetMaxOrd", <<>>), Call("IDASetMaxStep", <<s.max_step_size>>)>>
  \o (IF s.abstolv # <<>>
        THEN <<Call("IDASVtolerances", <<Len(s.abstolv)>>)>>
        ELSE <<Call("IDASStolerances", <<>>)>>)
  \o <<Call("IDASetMaxNumSteps", <<>>), Call("IDASetId", <<c.nx + c.nz>>)>>
  \o (IF c.iterative
        THEN <<Call(Krylov(c.itsol), <<>>),
               Call("IDASpilsSetJacTimesVecFn", <<"jtimes">>)>>
             \o When(c.use_precon,
                     <<Call("IDASpilsSetPreconditioner",
                            <<"psetup", "psolve">>)>>)
        ELSE <<>>)
  \o When(c.nq > 0,
          <<Call("IDAQuadInit", <<"rhsQ">>)>>
          \o When(c.quad_err_con,
                  <<Call("IDASetQuadErrCon", <<TRUE>>),
                    Call("IDAQuadSStolerances", <<>>)>>))
  \o When(c.nrx > 0, <<Call("IDAAdjInit", <<>>)>>)

\* the linear solver the forward problem ends with
LinearSolver(c, r) ==
  IF c.iterative
    THEN When(Succeeded(r, Krylov(c.itsol)), <<Krylov(c.itsol)>>)
         \o When(Succeeded(r, "IDASpilsSetJacTimesVecFn"), <<"jtimes">>)
         \o When(Succeeded(r, "IDASpilsSetPreconditioner"),
                 <<"psetup", "psolve">>)
    ELSE When(Passed(r, "IDASetId"), <<"lsetup", "lsolve">>)

\* the call IDACreate() of init_memory: it returns a handle, not a status
CreateCall ==
  [fn |-> "IDACreate", args |-> <<>>, wrapped |-> FALSE, flag |-> IDA_SUCCESS]

\* the local vector v of an operation: N_VNew_Serial if the operation got
\* as far as creating it, N_VDestroy_Serial if it got as far as that
Temporary(v, created, destroyed) ==
  Wrote(created, {v}, "N_VNew_Serial")
  \cup Wrote(destroyed, {v}, "N_VDestroy_Serial")

\* IdasInterface::init_memory with IDACreate returning a handle, the engine
\* calls running as r
InitMemoryCreated(r) ==
  LET plan == InitMemoryPlan(cfg, self)
      \* the calls before "Adjoint sensitivity problem"
      k == Len(plan) - (IF cfg.nrx > 0 THEN 1 ELSE 0)
      adjoint == cfg.nrx > 0 /\ Completed(r, k)
  IN /\ calls' = <<CreateCall>> \o r.log
     /\ m' = [m EXCEPT
                !.mem = 1,
                !.xzdot = IF Passed(r, "IDASetUserData") THEN 1 ELSE 0,
                !.rxzdot = IF adjoint THEN 1 ELSE 0,
                !.first_callB = IF r.threw THEN m.first_callB ELSE TRUE]
     /\ writes' = Wrote(TRUE, {"m.mem"}, "IDACreate")
                  \cup Wrote(Passed(r, "IDASetUserData"), {"m.xzdot"},
                             "N_VNew_Serial")
                  \cup Wrote(Passed(r, "IDASetUserData"),
                             {"m.xz", "m.xzdot"}, "N_VConst")
                  \cup Wrote(adjoint, {"m.rxzdot"}, "N_VNew_Serial")
                  \cup Wrote(adjoint, {"m.rxz", "m.rxzdot"}, "N_VConst")
                  \cup Wrote(~r.threw, {"m.first_callB"}, "true")
                  \cup Temporary("nv_abstol",
                                 self.abstolv # <<>>
                                 /\ Passed(r, "IDASetMaxStep"),
                                 Passed(r, "IDASVtolerances"))
                  \cup Temporary("id", Passed(r, "IDASetMaxNumSteps"),
                                 Passed(r, "IDASetId"))
     /\ eng' = [eng EXCEPT
                  !.created = TRUE,
                  !.tn = 0,
                  !.ls = LinearSolver(cfg, r),
                  !.adj = Succeeded(r, "IDAAdjInit")]
     /\ pc' = IF r.threw THEN "mem_failed" ELSE "ready"
     /\ last' = [op |-> "init_memory", t |-> 0,
                 err |-> IF r.threw THEN "engine" ELSE "none",
                 msg |-> r.msg]

\* IdasInterface::init_memory with IDACreate returning null
InitMemoryNoHandle ==
  /\ calls' = <<CreateCall>>
  /\ pc' = "mem_failed"
  /\ writes' = Wrote(TRUE, {"m.mem"}, "IDACreate")
  /\ last' = [op |-> "init_memory", t |-> 0, err |-> "create",
              msg |-> <<"IDACreate: Creation failed">>]
  /\ UNCHANGED <<m, eng>>

\* IdasInterface::init_memory
InitMemory ==
  /\ pc = "inited"
  /\ \/ InitMemoryNoHandle
     \/ \E r \in Runs(InitMemoryPlan(cfg, self),
                      Outcomes(InitMemoryPlan(cfg, self))) :
          InitMemoryCreated(r)
  /\ rep' = FALSE
  /\ redo' = FALSE
  /\ UNCHANGED <<cfg, opts, self, cb>>

\* IdasInterface::init as the caller sees it: the members are set, or the
\* call throws on an init_xdot of the wrong length
DoInit ==
  /\ pc = "constructed"
  /\ LET r == init(self, opts, cfg)
     IN /\ self' = r.self
        /\ pc' = IF r.ok THEN "inited" ELSE "init_failed"
        /\ last' = [op |-> "init", t |-> 0,
                    err |-> IF r.ok THEN "none" ELSE "config",
                    msg |-> IF r.ok THEN <<>>
                            ELSE <<"Option \"init_xdot\" has incorrect length.">>]
  /\ calls' = <<>>
  /\ writes' = {}
  /\ rep' = FALSE
  /\ redo' = FALSE
  /\ UNCHANGED <<cfg, opts, m, eng, cb>>

\* a mutant of ResetPlan: the backward integration is re-initialized
\* before the initial conditions are corrected
ResetPlanAdjointFirst(c, s) ==
  <<Call("IDAReInit", <<Front(grid), "xz", "init_xdot">>)>>
  \o When(c.nq > 0, <<Call("IDAQuadReInit", <<>>)>>)
  \o When(c.nrx > 0, <<Call("IDAAdjReInit", <<>>)>>)
  \o When(s.calc_ic, <<Call("IDACalcIC", <<s.first_time>>),
                       Call("IDAGetConsistentIC", <<>>)>>)
  \o When(c.stop_at_end, <<Call("IDASetStopTime", <<Back(grid)>>)>>)

\* the calls of reset, in order
ResetPlan(c, s) ==
  <<Call("IDAReInit", <<Front(grid), "xz", "init_xdot">>)>>
  \o When(c.nq > 0, <<Call("IDAQuadReInit", <<>>)>>)
  \o When(s.calc_ic, <<Call("IDACalcIC", <<s.first_time>>),
                       Call("IDAGetConsistentIC", <<>>)>>)
  \o When(c.nrx > 0, <<Call("IDAAdjReInit", <<>>)>>)
  \o When(c.stop_at_end, <<Call("IDASetStopTime", <<Back(grid)>>)>>)

\* SundialsInterface::reset: the time, the state and the parameters are
\* loaded and the quadratures are zeroed
BaseReset == Wrote(TRUE, {"m.t", "m.xz", "m.p"}, "reset")
             \cup Wrote(TRUE, {"m.q"}, "N_VConst")

\* IdasInterface::reset(mem, t, x, z, p)
Reset(t) ==
  /\ pc \in {"ready", "running"}
  /\ \E r \in Runs(ResetPlan(cfg, self), Outcomes(ResetPlan(cfg, self))) :
          /\ calls' = r.log
          /\ m' = [m EXCEPT !.t = t]
          /\ writes' = BaseReset
                       \cup Wrote(TRUE, {"m.xzdot"}, "init_xdot")
                       \cup Wrote(Succeeded(r, "IDAGetConsistentIC"),
                                  {"m.xz", "m.xzdot"}, "IDAGetConsistentIC")
          /\ eng' = [eng EXCEPT
                       !.tn = IF Succeeded(r, "IDAReInit")
                                THEN Front(grid) ELSE eng.tn,
                       !.tstop = IF Succeeded(r, "IDASetStopTime")
                                   THEN <<Back(grid)>>
                                 ELSE IF Succeeded(r, "IDAReInit") THEN <<>>
                                 ELSE eng.tstop]
          /\ last' = [op |-> "reset", t |-> t,
                      err |-> IF r.threw THEN "engine" ELSE "none",
                      msg |-> r.msg]
  /\ pc' = "running"
  /\ rep' = FALSE
  /\ redo' = FALSE
  /\ UNCHANGED <<cfg, opts, self, cb>>

\* a mutant of Step: the forward step always tapes
StepTaped(c) == "IDASolveF"

\* advance: the forward step of the engine, with taping if nrx_ > 0
Step(c) == IF c.nrx > 0 THEN "IDASolveF" ELSE "IDASolve"

\* a mutant of AdvancePlan: the engine steps whatever the session time is
AdvancePlanAlways(c, mm, t) ==
  <<Call(Step(c), <<t>>)>> \o When(c.nq > 0, <<Call("IDAGetQuad", <<>>)>>)
  \o <<Call("IDAGetIntegratorStats", <<>>)>>

\* the calls of advance to time t, in order
AdvancePlan(c, mm, t) ==
  When(Abs(mm.t - t) >= ttol,
       <<Call(Step(c), <<t>>)>> \o When(c.nq > 0, <<Call("IDAGetQuad", <<>>)>>))
  \o <<Call("IDAGetIntegratorStats", <<>>)>>

\* the ways the calls of advance can end: as any calls' can, and the step
\* may return IDA_TSTOP_RETURN (1) when asked for the stop time
AdvanceOutcomes(c, mm, e, t) ==
  Outcomes(AdvancePlan(c, mm, t))
  \cup (IF Abs(mm.t - t) >= ttol /\ e.tstop = <<t>>
          THEN {[fn |-> Step(c), flag |-> 1]} ELSE {})

\* the time the step returns in tret: the time asked for when it succeeds;
\* when it fails, the time it got to (IDAHandleFailure), or nothing when
\* the engine rejects its input
SolveReturns(c, e, t, st) ==
  IF st.fn = Step(c) /\ st.flag < IDA_SUCCESS
    THEN {<<>>} \cup {<<x>> : x \in {y \in Times : e.tn <= y /\ y < t}}
    ELSE {<<t>>}

\* a mutant of AdvanceChecked: the outputs are set whether the engine
\* calls before them succeeded or not
AdvanceCopying(t, r, tret) ==
  LET stepped == Made(r.log, Step(cfg)) /\ tret # <<>>
  IN /\ calls' = r.log
     /\ m' = IF stepped THEN [m EXCEPT !.t = tret[1]] ELSE m
     /\ eng' = IF stepped /\ tret[1] > eng.tn
                 THEN [eng EXCEPT !.tn = tret[1]] ELSE eng
     /\ writes' =
          Wrote(stepped, {"m.t", "m.xz", "m.xzdot"}, Step(cfg))
          \cup Wrote(cfg.nrx > 0 /\ Succeeded(r, Step(cfg)), {"m.ncheck"},
                     Step(cfg))
          \cup Wrote(Succeeded(r, "IDAGetQuad"), {"m.q"}, "IDAGetQuad")
          \cup Wrote(TRUE, {"x"}, "m.xz")
          \cup Wrote(cfg.nz > 0, {"z"}, "m.xz")
          \cup Wrote(cfg.nq > 0, {"q"}, "m.q")
          \cup Wrote(Succeeded(r, "IDAGetIntegratorStats"), {"m.stats"},
                     "IDAGetIntegratorStats")
     /\ last' = [op |-> "advance", t |-> t,
                 err |-> IF r.threw THEN "engine" ELSE "none", msg |-> r.msg]

\* advance after its two assertions passed, the engine calls running as r
\* and the step returning tret
AdvanceChecked(t, r, tret) ==
  LET plan == AdvancePlan(cfg, m, t)
      stepped == Made(r.log, Step(cfg)) /\ tret # <<>>
  IN /\ calls' = r.log
     /\ m' = IF stepped THEN [m EXCEPT !.t = tret[1]] ELSE m
     \* a time behind the one the engine reached is returned by
     \* interpolation, the engine stays where it is
     /\ eng' = IF stepped /\ tret[1] > eng.tn
                 THEN [eng EXCEPT !.tn = tret[1]] ELSE eng
     /\ writes' =
          Wrote(stepped, {"m.t", "m.xz", "m.xzdot"}, Step(cfg))
          \cup Wrote(cfg.nrx > 0 /\ Succeeded(r, Step(cfg)), {"m.ncheck"},
                     Step(cfg))
          \cup Wrote(Succeeded(r, "IDAGetQuad"), {"m.q"}, "IDAGetQuad")
          \cup Wrote(Completed(r, Len(plan) - 1), {"x"}, "m.xz")
          \cup Wrote(Completed(r, Len(plan) - 1) /\ cfg.nz > 0, {"z"}, "m.xz")
          \cup Wrote(Completed(r, Len(plan) - 1) /\ cfg.nq > 0, {"q"}, "m.q")
          \cup Wrote(Succeeded(r, "IDAGetIntegratorStats"), {"m.stats"},
                     "IDAGetIntegratorStats")
     /\ last' = [op |-> "advance", t |-> t,
                 err |-> IF r.threw THEN "engine" ELSE "none", msg |-> r.msg]

\* a mutant of AdvanceRejected: the requested time is checked after the
\* outputs are set and the statistics are read
AdvanceRejectedLate(t) ==
  /\ calls' = Run(<<Call("IDAGetIntegratorStats", <<>>)>>, AllSucceed).log
  /\ writes' = Wrote(TRUE, {"x"}, "m.xz")
               \cup Wrote(TRUE, {"m.stats"}, "IDAGetIntegratorStats")
  /\ last' = [op |-> "advance", t |-> t, err |-> "time_order", msg |-> <<>>]
  /\ UNCHANGED <<m, eng>>

\* advance with one of its two casadi_assert_message failing
AdvanceRejected(t) ==
  /\ calls' = <<>>
  /\ writes' = {}
  /\ last' = [op |-> "advance", t |-> t, err |-> "time_order",
              msg |-> IF t >= Front(grid)
                        THEN <<"Cannot integrate past a time later than tf">>
                        ELSE <<"Cannot integrate to a time earlier than t0">>]
  /\ UNCHANGED <<m, eng>>

\* a mutant of TimeOrdered: a time past the end of the grid is refused
\* whatever stop_at_end is
TimeOrderedStopping(c, t) == t >= Front(grid) /\ t <= Back(grid)

\* advance: the two casadi_assert_message on the requested time
TimeOrdered(c, t) ==
  t >= Front(grid) /\ (t <= Back(grid) \/ ~c.stop_at_end)

\* IdasInterface::advance(mem, t, x, z, q)
Advance(t) ==
  /\ pc = "running"
  /\ IF TimeOrdered(cfg, t)
       THEN \E st \in AdvanceOutcomes(cfg, m, eng, t) :
              \E tret \in SolveReturns(cfg, eng, t, st) :
                \E r \in {Run(AdvancePlan(cfg, m, t), st)} :
                  AdvanceChecked(t, r, tret)
       ELSE AdvanceRejected(t)
  /\ rep' = (last.op = "advance" /\ last.err = "none" /\ last.t = t /\ m.t = t)
  /\ redo' = (last.op \in {"resetB", "retreat"} /\ eng.tn = t /\ m.t < t)
  /\ UNCHANGED <<cfg, opts, self, pc, cb>>

\* a mutant of KrylovB: the backward problem gets GMRES whatever itsol_ is
KrylovBGmres(itsol) == "IDASpgmrB"

\* resetB, "attach linear solver"
KrylovB(itsol) ==
  CASE itsol = "SD_GMRES" -> "IDASpgmrB"
    [] itsol = "SD_BCGSTAB" -> "IDASpbcgB"
    [] itsol = "SD_TFQMR" -> "IDASptfqmrB"

\* the calls of resetB that create the backward problem which, in order
CreateBPlan(c, which) ==
  <<Call("IDACreateB", <<>>), Call("IDAInitB", <<which, Back(grid)>>),
    Call("IDASStolerancesB", <<which>>), Call("IDASetUserDataB", <<which>>),
    Call("IDASetMaxNumStepsB", <<which>>),
    Call("IDASetIdB", <<which, c.nrx + c.nrz>>)>>
  \o (IF c.iterative
        THEN <<Call(KrylovB(c.itsol), <<which>>),
               Call("IDASpilsSetJacTimesVecFnB", <<which, "jtimesB">>)>>
             \o When(c.use_precon,
                     <<Call("IDASpilsSetPreconditionerB",
                            <<which, "psetupB", "psolveB">>)>>)
        ELSE <<>>)
  \o <<Call("IDAQuadInitB", <<which, "rhsQB">>)>>
  \o When(c.quad_err_con,
          <<Call("IDASetQuadErrConB", <<which, TRUE>>),
            Call("IDAQuadSStolerancesB", <<which>>)>>)

\* the calls of resetB that re-initialize the backward problem which
ReInitBPlan(c, which) ==
  <<Call("IDAReInitB", <<which, Back(grid)>>)>>
  \o When(c.nrq > 0, <<Call("IDAQuadReInit", <<"memB", which>>)>>)

\* resetB, "Correct initial values for the integration if necessary"
CalcICBPlan(s, which) ==
  When(s.calc_icB, <<Call("IDACalcICB", <<which, Front(grid)>>),
                     Call("IDAGetConsistentICB", <<which>>)>>)

\* the backward problem identifier resetB works with: on the first call
\* the one IDACreateB returns, the index of the new problem
WhichB(mm, e) == IF mm.first_callB THEN e.nB ELSE mm.whichB

\* the calls of the first part of resetB, in order
ResetBHead(c, mm, e) ==
  IF mm.first_callB THEN CreateBPlan(c, WhichB(mm, e))
  ELSE ReInitBPlan(c, WhichB(mm, e))

\* the calls of resetB, in order
ResetBPlan(c, s, mm, e) ==
  ResetBHead(c, mm, e) \o CalcICBPlan(s, WhichB(mm, e))

\* the linear solver the backward problem ends with
LinearSolverB(c, r, e) ==
  IF ~Succeeded(r, "IDACreateB") THEN e.lsB
  ELSE IF c.iterative
    THEN When(Succeeded(r, KrylovB(c.itsol)), <<KrylovB(c.itsol)>>)
         \o When(Succeeded(r, "IDASpilsSetJacTimesVecFnB"), <<"jtimesB">>)
         \o When(Succeeded(r, "IDASpilsSetPreconditionerB"),
                 <<"psetupB", "psolveB">>)
    ELSE When(Passed(r, "IDASetIdB"), <<"lsetupB", "lsolveB">>)

\* SundialsInterface::resetB: the time, the backward state and the
\* parameters are loaded and the backward quadratures are zeroed
BaseResetB == Wrote(TRUE, {"m.t", "m.rxz", "m.rp"}, "resetB")
              \cup Wrote(TRUE, {"m.rq"}, "N_VConst")

\* IdasInterface::resetB(mem, t, rx, rz, rp)
ResetB(t) ==
  /\ pc = "running"
  /\ cfg.nrx > 0
  /\ m.first_callB => eng.nB < MaxB
  /\ \E r \in Runs(ResetBPlan(cfg, self, m, eng),
                   Outcomes(ResetBPlan(cfg, self, m, eng))) :
       LET created == Succeeded(r, "IDACreateB")
           marked == m.first_callB
                     /\ Completed(r, Len(ResetBHead(cfg, m, eng)))
       IN /\ calls' = r.log
          /\ m' = [m EXCEPT
                     !.t = t,
                     !.whichB = IF created THEN eng.nB ELSE m.whichB,
                     !.first_callB = m.first_callB /\ ~marked]
          /\ writes' = BaseResetB
                       \cup Wrote(created, {"m.whichB"}, "IDACreateB")
                       \cup Wrote(marked, {"m.first_callB"}, "false")
                       \cup Temporary("id", Passed(r, "IDASetMaxNumStepsB"),
                                      Passed(r, "IDASetIdB"))
                       \cup Wrote(Succeeded(r, "IDAGetConsistentICB"),
                                  {"m.rxz", "m.rxzdot"}, "IDAGetConsistentICB")
          /\ eng' = [eng EXCEPT
                       !.nB = IF created THEN eng.nB + 1 ELSE eng.nB,
                       !.lsB = LinearSolverB(cfg, r, eng)]
          /\ last' = [op |-> "resetB", t |-> t,
                      err |-> IF r.threw THEN "engine" ELSE "none",
                      msg |-> r.msg]
  /\ rep' = FALSE
  /\ redo' = FALSE
  /\ UNCHANGED <<cfg, opts, self, pc, cb>>

\* a mutant of RetreatPlan: the engine steps back also when asked for the
\* time the session is at
RetreatPlanEager(c, mm, t) ==
  When(t <= mm.t,
       <<Call("IDASolveB", <<t>>), Call("IDAGetB", <<mm.whichB>>)>>
       \o When(c.nrq > 0, <<Call("IDAGetQuadB", <<mm.whichB>>)>>))

\* the calls of retreat to time t before its outputs are saved, in order
RetreatPlan(c, mm, t) ==
  When(t < mm.t,
       <<Call("IDASolveB", <<t>>), Call("IDAGetB", <<mm.whichB>>)>>
       \o When(c.nrq > 0, <<Call("IDAGetQuadB", <<mm.whichB>>)>>))

\* retreat, "Get stats": the statistics are read from the head of the
\* engine's list of backward problems
StatsBPlan == <<Call("IDAGetIntegratorStats", <<"IDAB_mem">>)>>

\* the ways the calls of retreat can end.  IDASolveB returns IDA_NO_BCK
\* (-103) when no backward problem was created.
RetreatOutcomes(c, mm, e, t) ==
  IF e.nB = 0 /\ t < mm.t THEN {[fn |-> "IDASolveB", flag |-> -103]}
  ELSE IF e.nB = 0 THEN {AllSucceed}
  ELSE Outcomes(RetreatPlan(c, mm, t) \o StatsBPlan)

\* "Save outputs" of retreat
SaveOutputs(c) ==
  Wrote(TRUE, {"rx"}, "m.rxz") \cup Wrote(c.nrz > 0, {"rz"}, "m.rxz")
  \cup Wrote(c.nrq > 0, {"rq"}, "m.rq")

\* retreat, the engine calls running as r
RetreatRun(t, r) ==
  /\ calls' = r.log
  /\ eng' = eng
  /\ m' = IF Succeeded(r, "IDAGetB") \/ Succeeded(r, "IDAGetQuadB")
            THEN [m EXCEPT !.t = t] ELSE m
  /\ writes' =
       Wrote(Succeeded(r, "IDAGetB"), {"m.t", "m.rxz", "m.rxzdot"}, "IDAGetB")
       \cup Wrote(Succeeded(r, "IDAGetQuadB"), {"m.t", "m.rq"}, "IDAGetQuadB")
       \cup (IF Completed(r, Len(RetreatPlan(cfg, m, t)))
               THEN SaveOutputs(cfg) ELSE {})
       \cup Wrote(Succeeded(r, "IDAGetIntegratorStats"), {"m.statsB"},
                  "IDAGetIntegratorStats")
  /\ last' = [op |-> "retreat", t |-> t,
              err |-> IF r.threw THEN "engine" ELSE "none", msg |-> r.msg]
  /\ pc' = pc

\* retreat reaching "Get stats" with no backward problem in the engine:
\* IDAADJ_mem->IDAB_mem is null and is dereferenced.  The process is
\* killed, or the read goes through and the statistics are garbage.
RetreatNoProblem(t, killed) ==
  /\ calls' = <<>>
  /\ eng' = eng
  /\ m' = m
  /\ writes' = SaveOutputs(cfg) \cup Wrote(~killed, {"m.statsB"}, "garbage")
  /\ last' = [op |-> "retreat", t |-> t,
              err |-> IF killed THEN "killed" ELSE "none", msg |-> <<>>]
  /\ pc' = IF killed THEN "killed" ELSE pc

\* IdasInterface::retreat(mem, t, rx, rz, rq)
Retreat(t) ==
  /\ pc = "running"
  /\ cfg.nrx > 0
  /\ IF eng.nB = 0 /\ ~(t < m.t)
       THEN \E killed \in Booleans : RetreatNoProblem(t, killed)
       ELSE \E r \in Runs(IF eng.nB = 0 THEN RetreatPlan(cfg, m, t)
                          ELSE RetreatPlan(cfg, m, t) \o StatsBPlan,
                          RetreatOutcomes(cfg, m, eng, t)) :
              RetreatRun(t, r)
  /\ rep' = FALSE
  /\ redo' = FALSE
  /\ UNCHANGED <<cfg, opts, self, cb>>

\* IdasMemory::~IdasMemory: the call it makes
DestroyPlan(mm) == When(mm.mem # 0, <<Bare("IDAFree", <<>>)>>)

\* IdasMemory::~IdasMemory, at the end of the session.  IDAFree sets the
\* handle to null and releases the engine with its backward problems.
Destroy ==
  /\ pc \notin {"destroyed", "killed"}
  /\ calls' = Run(DestroyPlan(m), AllSucceed).log
  /\ m' = [m EXCEPT !.mem = 0]
  /\ eng' = IF m.mem # 0 THEN NoEngine ELSE eng
  /\ writes' = Wrote(m.mem # 0, {"m.mem"}, "IDAFree")
               \cup Wrote(m.xzdot # 0, {"m.xzdot"}, "N_VDestroy_Serial")
               \cup Wrote(m.rxzdot # 0, {"m.rxzdot"}, "N_VDestroy_Serial")
  /\ last' = [op |-> "destroy", t |-> 0, err |-> "none", msg |-> <<>>]
  /\ pc' = "destroyed"
  /\ rep' = FALSE
  /\ redo' = FALSE
  /\ UNCHANGED <<cfg, opts, self, cb>>

---------------------------------------------------------------------------
(* The session as a state machine *)

\* the times reset is called with: the start of the grid, or a later time
ResetTimes == {Front(grid), Front(grid) + ttol}

\* the times resetB is called with: the end of the grid, or an earlier time
ResetBTimes == {Back(grid), Back(grid) - ttol}

\* no option is supplied
NoOptions == [k \in {OptionKeys[i] : i \in 1..Len(OptionKeys)} |-> <<>>]

\* the sessions of Spec, all with a direct linear solver: forward only,
\* with and without quadratures and a stop time; and with a backward
\* problem, quadratures and a stop time, with and without backward
\* quadratures
SessionSettings ==
  {Settings(1, 1, nq, 0, 0, 0, stop, FALSE, "SD_GMRES", FALSE, FALSE) :
     nq \in {0, 1}, stop \in Booleans}
  \cup {Settings(1, 1, 1, 1, 0, nrq, TRUE, FALSE, "SD_GMRES", FALSE, FALSE) :
          nrq \in {0, 1}}

\* calc_ic is left at its default or switched off
SessionOptions ==
  {MakeDict([NoOptions EXCEPT !["calc_ic"] = ic], 1) : ic \in Maybe({FALSE})}

\* the state after construction: the members are unset, the memory is as
\* IdasMemory::IdasMemory leaves it, no engine exists
Start(settings, options) ==
  /\ cfg \in settings
  /\ opts \in options
  /\ self = self0
  /\ pc = "constructed"
  /\ m = IdasMemory
  /\ eng = NoEngine
  /\ writes = Wrote(TRUE, {"m.mem", "m.xzdot", "m.rxzdot", "m.ncheck"}, "0")
  /\ last = NoError
  /\ calls = <<>>
  /\ rep = FALSE
  /\ redo = FALSE
  /\ cb = NoCallback

Init == Start(SessionSettings, SessionOptions)

Next ==
  \/ DoInit
  \/ InitMemory
  \/ \E t \in ResetTimes : Reset(t)
  \/ \E t \in Times : Advance(t)
  \/ \E t \in ResetBTimes : ResetB(t)
  \/ \E t \in Times : Retreat(t)

Spec == Init /\ [][Next]_vars

---------------------------------------------------------------------------
(* The callbacks the engine calls *)

\* what the evaluation of the model (calc_function, linsol_solve,
\* linsol_factorize) does inside a callback: it returns, throws the integer
\* val, or throws an exception
Ok == [kind |-> "ok", val |-> 0]

Thrown(n) == [kind |-> "int", val |-> n]

Failed == [kind |-> "exc", val |-> 0]

\* a callback returns v to the engine, after writing text to the warning
\* stream; b is scaled by scale[1] / scale[2] if scale is not empty; made
\* lists the functions a linear solver hook called on its way
Returned(v, text) ==
  [ret |-> <<v>>, escaped |-> <<>>, text |-> text, scale |-> <<>>,
   made |-> <<>>]

\* the integer n thrown in a callback leaves it uncaught
Escaped(n) ==
  [ret |-> <<>>, escaped |-> <<n>>, text |-> <<>>, scale |-> <<>>,
   made |-> <<>>]

\* the hook called the functions fns before it ended as r
After(fns, r) == [r EXCEPT !.made = fns]

\* e.what() of the exception the evaluation of the model throws
What == "evaluation failed"

\* IdasInterface::res
res(ev) ==
  IF ev.kind = "int" THEN Returned(ev.val, <<>>)
  ELSE IF ev.kind = "exc" THEN Returned(-1, <<"res failed: ", What>>)
  ELSE Returned(0, <<>>)

\* IdasInterface::jtimes
jtimes(ev) ==
  IF ev.kind = "exc" THEN Returned(1, <<"jtimes failed: ", What>>)
  ELSE IF ev.kind = "int" THEN Escaped(ev.val)
  ELSE Returned(0, <<>>)

\* IdasInterface::jtimesB
jtimesB(ev) ==
  IF ev.kind = "exc" THEN Returned(1, <<"jtimesB failed: ", What>>)
  ELSE IF ev.kind = "int" THEN Escaped(ev.val)
  ELSE Returned(0, <<>>)

\* IdasInterface::rhsQ
rhsQ(ev) ==
  IF ev.kind = "exc" THEN Returned(1, <<"rhsQ failed: ", What>>)
  ELSE IF ev.kind = "int" THEN Escaped(ev.val)
  ELSE Returned(0, <<>>)

\* IdasInterface::resB
resB(ev) ==
  IF ev.kind = "exc" THEN Returned(1, <<"resB failed: ", What>>)
  ELSE IF ev.kind = "int" THEN Escaped(ev.val)
  ELSE Returned(0, <<>>)

\* IdasInterface::rhsQB
rhsQB(ev) ==
  IF ev.kind = "exc" THEN Returned(1, <<"rhsQB failed: ", What>>)
  ELSE IF ev.kind = "int" THEN Escaped(ev.val)
  ELSE Returned(0, <<>>)

\* IdasInterface::psolve
psolve(ev) ==
  IF ev.kind = "exc" THEN Returned(1, <<"psolve failed: ", What>>)
  ELSE IF ev.kind = "int" THEN Escaped(ev.val)
  ELSE Returned(0, <<>>)

\* IdasInterface::psolveB
psolveB(ev) ==
  IF ev.kind = "exc" THEN Returned(1, <<"psolveB failed: ", What>>)
  ELSE IF ev.kind = "int" THEN Escaped(ev.val)
  ELSE Returned(0, <<>>)

\* IdasInterface::psetup
psetup(ev) ==
  IF ev.kind = "exc" THEN Returned(1, <<"psetup failed: ", What>>)
  ELSE IF ev.kind = "int" THEN Escaped(ev.val)
  ELSE Returned(0, <<>>)

\* IdasInterface::psetupB
psetupB(ev) ==
  IF ev.kind = "exc" THEN Returned(1, <<"psetupB failed: ", What>>)
  ELSE IF ev.kind = "int" THEN Escaped(ev.val)
  ELSE Returned(0, <<>>)

\* IdasInterface::lsetup: it has no try block, what psetup lets out goes on
\* to the engine
lsetup(ev) ==
  LET r == psetup(ev)
  IN After(<<"psetup">>,
           IF r.escaped # <<>> THEN r
           ELSE IF r.ret[1] # 0 THEN Returned(1, r.text)
           ELSE Returned(0, r.text))

\* a mutant of Interpolated: the status of ia_getY is not looked at
InterpolatedAnyway(noInterp, flag) == TRUE

\* lsetupB and lsolveB, "Get FORWARD solution from interpolation": ia_getY
\* is called unless ia_noInterp, and a status other than IDA_SUCCESS is a
\* casadi_error
Interpolated(noInterp, flag) == noInterp \/ flag = IDA_SUCCESS

\* lsetupB and lsolveB: the call of ia_getY, if it is made
GetY(noInterp) == IF noInterp THEN <<>> ELSE <<"ia_getY">>

\* IdasInterface::lsetupB
lsetupB(ev, noInterp, flag) ==
  IF ~Interpolated(noInterp, flag)
    THEN After(GetY(noInterp),
               Returned(-1, <<"lsetupB failed: ",
                              "Could not interpolate forward states">>))
    ELSE LET r == psetupB(ev)
         IN After(GetY(noInterp) \o <<"psetupB">>,
                  IF r.escaped # <<>> THEN r
                  ELSE IF r.ret[1] # 0 THEN Returned(1, r.text)
                  ELSE Returned(0, r.text))

\* a mutant of CjScale: the correction is scaled whatever cj_scaling is
CjScaleAlways(cj_scaling, ratio) ==
  IF ratio[1] # ratio[2]
    THEN <<2 * ratio[2], ratio[2] + ratio[1]>>
    ELSE <<>>

\* lsolve and lsolveB, "Scale the correction to account for change in cj":
\* the factor 2.0/(1.0 + cjratio) as a fraction, cjratio being
\* ratio[1] / ratio[2]; empty when b is left as it is
CjScale(cj_scaling, ratio) ==
  IF cj_scaling /\ ratio[1] # ratio[2]
    THEN <<2 * ratio[2], ratio[2] + ratio[1]>>
    ELSE <<>>

\* IdasInterface::lsolve
lsolve(ev, cj_scaling, ratio) ==
  LET r == psolve(ev)
  IN After(<<"psolve">>,
           IF r.escaped # <<>> THEN Returned(r.escaped[1], r.text)
           ELSE IF r.ret[1] # 0 THEN Returned(1, r.text)
           ELSE [Returned(0, r.text)
                   EXCEPT !.scale = CjScale(cj_scaling, ratio)])

\* IdasInterface::lsolveB
lsolveB(ev, noInterp, flag, cj_scaling, ratio) ==
  IF ~Interpolated(noInterp, flag)
    THEN After(GetY(noInterp),
               Returned(-1, <<"lsolveB failed: ",
                              "Could not interpolate forward states">>))
    ELSE LET r == psolveB(ev)
         IN After(GetY(noInterp) \o <<"psolveB">>,
                  IF r.escaped # <<>> THEN Returned(r.escaped[1], r.text)
                  ELSE IF r.ret[1] # 0 THEN Returned(1, r.text)
                  ELSE [Returned(0, r.text)
                          EXCEPT !.scale = CjScale(cj_scaling, ratio)])

\* the callbacks, by the name the engine is given them under
Callbacks ==
  {"res", "jtimes", "jtimesB", "rhsQ", "resB", "rhsQB", "psolve", "psolveB",
   "psetup", "psetupB", "lsetup", "lsetupB", "lsolve", "lsolveB"}

\* the engine calls callback name
Invoke(name, in) ==
  CASE name = "res" -> res(in.ev)
    [] name = "jtimes" -> jtimes(in.ev)
    [] name = "jtimesB" -> jtimesB(in.ev)
    [] name = "rhsQ" -> rhsQ(in.ev)
    [] name = "resB" -> resB(in.ev)
    [] name = "rhsQB" -> rhsQB(in.ev)
    [] name = "psolve" -> psolve(in.ev)
    [] name = "psolveB" -> psolveB(in.ev)
    [] name = "psetup" -> psetup(in.ev)
    [] name = "psetupB" -> psetupB(in.ev)
    [] name = "lsetup" -> lsetup(in.ev)
    [] name = "lsetupB" -> lsetupB(in.ev, in.noInterp, in.flag)
    [] name = "lsolve" -> lsolve(in.ev, in.cj_scaling, in.cjratio)
    [] name = "lsolveB" ->
         lsolveB(in.ev, in.noInterp, in.flag, in.cj_scaling, in.cjratio)

\* what the evaluation of the model may do
Events ==
  {Ok, Failed} \cup {Thrown(n) : n \in (-MaxThrow)..MaxThrow}

\* the values of ida_cjratio, as fractions
CjRatios == {<<1, 1>>, <<1, 2>>, <<2, 1>>}

\* what a callback is called with and finds in the engine
Inputs ==
  [ev : Events, noInterp : Booleans, flag : {IDA_SUCCESS, -1},
   cj_scaling : Booleans, cjratio : CjRatios]

\* the engine calls one of the callbacks; cb holds the one call looked at
Callback ==
  /\ cb.name = "none"
  /\ \E name \in Callbacks, in \in Inputs :
       cb' = [name |-> name, in |-> in, out |-> Invoke(name, in)]
  /\ UNCHANGED <<cfg, opts, self, pc, m, eng, writes, last, calls, rep, redo>>

\* the statuses handed to idas_error
Flags == (-4)..2 \cup {-22, -103}

\* the engine functions idas_error is handed the status of
Modules == {"IDASolve", "IDAReInit", "IDACreateB"}

\* THROWING(fcn, ...) with fcn returning flag
Translate ==
  /\ cb.name = "none"
  /\ \E fcn \in Modules, flag \in Flags :
       cb' = [name |-> "idas_error", in |-> [fcn |-> fcn, flag |-> flag],
              out |-> idas_error(CallSite(fcn), flag)]
  /\ UNCHANGED <<cfg, opts, self, pc, m, eng, writes, last, calls, rep, redo>>

InitFn == Start({Settings(1, 1, 1, 1, 0, 1, TRUE, FALSE, "SD_GMRES", FALSE, FALSE)},
                {MakeDict(NoOptions, 1)})

NextFn == Callback \/ Translate

SpecFn == InitFn /\ [][NextFn]_vars

\* C6: idas_error returns on every status >= 0, the positive ones too, and
\* throws on every negative status, with a message that carries the call
\* site and the engine's name of the status
StatusTranslated ==
  cb.name = "idas_error" =>
    /\ cb.in.flag >= 0 => ~cb.out.thrown /\ cb.out.msg = <<>>
    /\ cb.in.flag < 0 =>
         /\ cb.out.thrown
         /\ SubSeq(cb.out.msg, 1, 2) = CallSite(cb.in.fcn)
         /\ \E i \in 1..Len(cb.out.msg) :
              cb.out.msg[i] = IDAGetReturnFlagName(cb.in.flag)

\* idas_error was handed the status zero (IDA_SUCCESS) and returned
SuccessTranslated ==
  cb.name = "idas_error" /\ cb.in.flag = 0 /\ ~cb.out.thrown

\* C8: in every callback an integer thrown by the evaluation of the model
\* is caught in the callback and returned to the engine as a positive value
ThrownIntReturned ==
  (cb.name \in Callbacks /\ cb.in.ev.kind = "int"
   /\ Interpolated(cb.in.noInterp, cb.in.flag)) =>
    cb.out.escaped = <<>> /\ cb.out.ret[1] > 0

\* a positive integer thrown in a callback left it uncaught
ThrownIntEscaped ==
  /\ cb.name \in Callbacks /\ cb.in.ev.kind = "int" /\ cb.in.ev.val > 0
  /\ cb.out.escaped = <<cb.in.ev.val>>

\* C9: in every callback a failure other than a thrown integer is returned
\* to the engine as a negative value, after text about it was written
FailureReturnedNegative ==
  (cb.name \in Callbacks
   /\ (cb.in.ev.kind = "exc" \/ ~Interpolated(cb.in.noInterp, cb.in.flag))) =>
    cb.out.escaped = <<>> /\ cb.out.ret[1] < 0 /\ cb.out.text # <<>>

\* an exception in a callback was returned to the engine as a positive
\* value
FailureReturnedPositive ==
  /\ cb.name \in Callbacks /\ cb.in.ev.kind = "exc"
  /\ cb.out.escaped = <<>> /\ cb.out.ret[1] > 0

---------------------------------------------------------------------------
(* Setting up: init and init_memory over the options and the settings *)

\* an option vector of each length up to MaxLen, its entries not zero
Vectors == {Vec(n, 1) : n \in 0..MaxLen}

\* the linear solvers: direct, or a Krylov method with or without a
\* preconditioner
SetupSolvers ==
  {<<FALSE, "SD_GMRES", FALSE>>, <<TRUE, "SD_GMRES", FALSE>>,
   <<TRUE, "SD_BCGSTAB", TRUE>>, <<TRUE, "SD_TFQMR", TRUE>>}

\* the settings of SpecSetup: one or two differential states, with and
\* without an algebraic state, quadratures and a backward problem
SetupSettings ==
  {Settings(nx, nz, nq, nrx, 0, 0, TRUE, ls[1], ls[2], ls[3], nq > 0 /\ nz > 0) :
     nx \in {1, 2}, nz \in {0, 1}, nq \in {0, 1}, nrx \in {0, 1},
     ls \in SetupSolvers}

\* the options of SpecSetup: abstolv and init_xdot left out or of any
\* length, calc_ic and calc_icB left out or given
SetupOptions ==
  {MakeDict([NoOptions EXCEPT !["abstolv"] = av, !["init_xdot"] = xd,
                              !["calc_ic"] = ic, !["calc_icB"] = icB], 1) :
     av \in Maybe(Vectors), xd \in Maybe(Vectors),
     ic \in Maybe({FALSE}), icB \in Maybe(Booleans)}

InitSetup == Start(SetupSettings, SetupOptions)

NextSetup == DoInit \/ InitMemory

SpecSetup == InitSetup /\ [][NextSetup]_vars

\* the option key as the caller supplied it, empty when it was left out
Supplied(key) == IF HasKey(opts, key) THEN Value(opts, key) ELSE <<>>

\* C4: an abstolv that is supplied has length nx+nz: one of another length
\* is refused with a configuration error in init or init_memory, so it is
\* never handed to the engine and setting up never succeeds with it
AbstolvLengthChecked ==
  /\ \A i \in 1..Len(calls) :
       calls[i].fn = "IDASVtolerances" => calls[i].args = <<cfg.nx + cfg.nz>>
  /\ pc = "ready" =>
       Supplied("abstolv") = <<>> \/ Len(Supplied("abstolv")) = cfg.nx + cfg.nz

\* setting up succeeded with an abstolv of another length than nx+nz, which
\* was handed to the engine
AbstolvAccepted ==
  /\ pc = "ready" /\ last.err = "none"
  /\ Supplied("abstolv") # <<>> /\ Len(Supplied("abstolv")) # cfg.nx + cfg.nz
  /\ \E i \in 1..Len(calls) :
       calls[i].fn = "IDASVtolerances"
       /\ calls[i].args = <<Len(Supplied("abstolv"))>>

\* C5: init refuses a supplied init_xdot whose length is not nx with a
\* configuration error; an init_xdot left out or empty becomes nx zeros;
\* so after a successful init the init_xdot kept has length nx
InitXdotChecked ==
  pc # "constructed" =>
    /\ (Supplied("init_xdot") # <<>> /\ Len(Supplied("init_xdot")) # cfg.nx)
         => pc = "init_failed" /\ last.err = "config"
    /\ Supplied("init_xdot") = <<>>
         => pc # "init_failed" /\ self.init_xdot = Vec(cfg.nx, 0)
    /\ pc # "init_failed"
         => /\ Len(self.init_xdot) = cfg.nx
            /\ Supplied("init_xdot") # <<>>
                 => self.init_xdot = Supplied("init_xdot")

\* init refused an init_xdot longer than nx
InitXdotRefused ==
  /\ pc = "init_failed" /\ last.op = "init" /\ last.err = "config"
  /\ Len(Supplied("init_xdot")) > cfg.nx

---------------------------------------------------------------------------
(* Properties of the session *)

\* C7: a negative status returned by an engine call of init_memory, reset,
\* advance, resetB or retreat aborts the operation with a fatal error: the
\* call is the last one the operation makes and the operation throws
EveryStatusTranslated ==
  \A i \in 1..Len(calls) :
    calls[i].flag < IDA_SUCCESS => i = Len(calls) /\ last.err = "engine"

\* C10: the backward problem is created once in a session, by the first
\* resetB that succeeds; first_callB is true after init_memory and false
\* after that resetB and from then on; a later resetB re-initializes
\* (IDAReInitB) the problem created instead of creating one
BackwardCreatedOnce ==
  /\ eng.nB <= 1
  /\ pc = "ready" /\ last.err = "none" => m.first_callB
  /\ (pc = "running" /\ eng.nB = 0) => m.first_callB
  /\ (last.op = "resetB" /\ last.err = "none") =>
       eng.nB = 1 /\ ~m.first_callB
  /\ (last.op = "resetB" /\ ~Made(calls, "IDACreateB")) =>
       /\ ~m.first_callB
       /\ calls[1].fn = "IDAReInitB"
       /\ calls[1].args = <<m.whichB, Back(grid)>>

\* a second backward problem was created, by a resetB that succeeded
BackwardCreatedTwice ==
  /\ last.op = "resetB" /\ last.err = "none" /\ Made(calls, "IDACreateB")
  /\ eng.nB = 2 /\ m.whichB = 1

\* init_memory went on after IDAInit returned a negative status
InitStatusDropped ==
  /\ last.op = "init_memory" /\ last.err = "none" /\ pc = "ready"
  /\ \E i \in 1..Len(calls) :
       calls[i].fn = "IDAInit" /\ calls[i].flag < IDA_SUCCESS

\* the last operation made a forward step of the engine
Stepped == Made(calls, "IDASolve") \/ Made(calls, "IDASolveF")

\* C1: when advance(t) succeeded and left the session time at t, an advance
\* to the same t right after it makes no forward step of the engine
\* (IDASolve, IDASolveF): of two advance(t) in a row at most one steps
AdvanceIdempotent == rep => ~Stepped

\* an advance(t) right after a successful advance(t), itself successful
AdvanceRepeated ==
  rep /\ last.op = "advance" /\ last.err = "none" /\ last.t > Front(grid)

\* C2: advance(t) with t before the start of the grid always fails with a
\* time-ordering error; with t past the end of the grid it fails with one
\* when stop_at_end is set and is accepted when it is not; no other
\* advance fails with one
AdvanceTimeOrdering ==
  last.op = "advance" =>
    (last.err = "time_order"
       <=> (last.t < T0 \/ (last.t > TF /\ cfg.stop_at_end)))

\* an advance past the end of the grid went through with stop_at_end off
AdvancedPastEnd ==
  last.op = "advance" /\ last.t > TF /\ ~cfg.stop_at_end
  /\ last.err = "none" /\ m.t = last.t /\ Stepped

\* C3: an advance that fails with a time-ordering error made no engine
\* call and wrote nothing: the session time, the vectors, the quadratures,
\* the statistics, the engine and the buffers of the caller are as before
TimeOrderingFirst ==
  [][last'.op = "advance" /\ last'.err = "time_order"
       => calls' = <<>> /\ writes' = {} /\ m' = m /\ eng' = eng]_vars

\* an advance was refused for its time after the session had moved on
\* from the start of the grid
RefusedAfterStep ==
  last.op = "advance" /\ last.err = "time_order" /\ m.t > Front(grid)
  /\ eng.tn > Front(grid)

---------------------------------------------------------------------------
(* Properties of the backward pass *)

\* the calls to fcn in a log
Of(log, fcn) == {i \in 1..Len(log) : log[i].fn = fcn}

\* C11: a resetB(t) that is not the first of the session re-initializes
\* the backward problem in the engine at the time t it was called with, the
\* session time the reset sets
ReInitBAtResetTime ==
  (last.op = "resetB" /\ Made(calls, "IDAReInitB")) =>
    /\ m.t = last.t
    /\ \A i \in Of(calls, "IDAReInitB") : calls[i].args[2] = last.t

\* a later resetB, called with a time before the end of the grid, succeeded
\* in re-initializing the backward problem at the end of the grid
ReInitBAtGridEnd ==
  /\ last.op = "resetB" /\ last.err = "none" /\ last.t < Back(grid)
  /\ m.t = last.t
  /\ \E i \in Of(calls, "IDAReInitB") : calls[i].args[2] = Back(grid)

\* the last operation asked the engine for a backward step, the backward
\* state or the backward quadratures
SteppedBack ==
  Made(calls, "IDASolveB") \/ Made(calls, "IDAGetB")
  \/ Made(calls, "IDAGetQuadB")

\* the locations the last operation wrote
Locations == {w[1] : w \in writes}

\* C12: retreat(t) asks the engine for a backward step, and then for the
\* backward state and quadratures, only if t is before the session time;
\* otherwise it makes no such call, leaves the session time and the
\* backward state as they are and copies the backward state to the caller
RetreatOnlyBack ==
  [][last'.op = "retreat" =>
       /\ SteppedBack' => last'.t < m.t
       /\ last'.t >= m.t =>
            /\ ~SteppedBack'
            /\ m' = m
            /\ Locations' \cap {"m.t", "m.rxz", "m.rxzdot", "m.rq"} = {}
            /\ <<"rx", "m.rxz">> \in writes']_vars

\* a retreat to the time the session is at, after a retreat that stepped
\* back to it, went through: nothing but the statistics was asked of the
\* engine
RetreatedInPlace ==
  /\ last.op = "retreat" /\ last.err = "none" /\ last.t = m.t
  /\ eng.nB > 0 /\ ~SteppedBack /\ Made(calls, "IDAGetIntegratorStats")
  /\ m.t < Back(grid) - ttol

\* C13: the session time is monotone in each direction: a successful
\* advance after a successful reset or advance does not decrease it, and a
\* successful retreat after a successful resetB or retreat does not
\* increase it
TimeMonotone ==
  [][/\ (last'.op = "advance" /\ last'.err = "none"
         /\ last.op \in {"reset", "advance"} /\ last.err = "none")
          => m'.t >= m.t
     /\ (last'.op = "retreat" /\ last'.err = "none"
         /\ last.op \in {"resetB", "retreat"} /\ last.err = "none")
          => m'.t <= m.t]_vars

\* a successful advance took the session time back from the end of the
\* grid, which the engine had reached
AdvancedBackwards ==
  /\ last.op = "advance" /\ last.err = "none" /\ Stepped
  /\ m.t = last.t /\ m.t < eng.tn /\ eng.tn = Back(grid)

\* C14: with nrx > 0, retreat touches the backward part of the engine (the
\* backward step, the backward state, the backward statistics) only after
\* a resetB has created the backward problem: a retreat made while
\* first_callB is true reads no backward problem that does not exist
RetreatAfterResetB ==
  last.op = "retreat" =>
    /\ last.err # "killed"
    /\ (calls # <<>> \/ "m.statsB" \in Locations) =>
         eng.nB > 0 /\ ~m.first_callB

\* a retreat made before any resetB read the statistics of a backward
\* problem that does not exist, and the process was killed
RetreatKilled ==
  /\ last.op = "retreat" /\ last.err = "killed" /\ pc = "killed"
  /\ m.first_callB /\ eng.nB = 0 /\ cfg.nrx > 0

---------------------------------------------------------------------------
(* Properties of the linear solver hooks *)

\* C15: in lsetupB and lsolveB, when the forward states are interpolated
\* and ia_getY returns another status than success, the hook returns a
\* negative value and calls neither psetupB nor psolveB; with ia_noInterp
\* set, ia_getY is not called
InterpolationFatal ==
  cb.name \in {"lsetupB", "lsolveB"} =>
    /\ (~cb.in.noInterp /\ cb.in.flag # IDA_SUCCESS) =>
         /\ cb.out.escaped = <<>> /\ cb.out.ret[1] < 0
         /\ cb.out.made = <<"ia_getY">>
         /\ cb.out.text # <<>>
    /\ cb.in.noInterp =>
         \A i \in 1..Len(cb.out.made) : cb.out.made[i] # "ia_getY"

\* lsolveB found the interpolation failing and returned -1 without solving
InterpolationFailed ==
  /\ cb.name = "lsolveB" /\ ~cb.in.noInterp /\ cb.in.flag = -1
  /\ cb.in.ev = Ok /\ cb.out.ret = <<-1>> /\ cb.out.made = <<"ia_getY">>

\* C17: in lsolve and lsolveB, after a solve that succeeded the correction
\* is scaled by 2/(1+cjratio) if and only if cj_scaling is set and cjratio
\* is not 1, and left as solved otherwise; after a solve that failed it is
\* not scaled
CjScaling ==
  cb.name \in {"lsolve", "lsolveB"} =>
    IF /\ cb.in.ev = Ok
       /\ cb.name = "lsolveB" => Interpolated(cb.in.noInterp, cb.in.flag)
      THEN IF cb.in.cj_scaling /\ cb.in.cjratio[1] # cb.in.cjratio[2]
             THEN /\ cb.out.ret = <<0>>
                  /\ cb.out.scale # <<>>
                  \* scale = 2 / (1 + cjratio), cross-multiplied
                  /\ cb.out.scale[1] * (cb.in.cjratio[2] + cb.in.cjratio[1])
                       = 2 * cb.in.cjratio[2] * cb.out.scale[2]
             ELSE cb.out.scale = <<>>
      ELSE cb.out.scale = <<>>

\* lsolveB solved with cj_scaling set and cjratio = 2 and scaled the
\* correction by 2/3
CjScaled ==
  /\ cb.name = "lsolveB" /\ cb.in.cj_scaling /\ cb.in.cjratio = <<2, 1>>
  /\ cb.out.ret = <<0>> /\ cb.out.scale = <<2, 3>>

---------------------------------------------------------------------------
(* Properties of the options *)

\* the entries of a dictionary in the opposite order
Reverse(o) == [i \in 1..Len(o) |-> o[Len(o) + 1 - i]]

\* init returned
Initialized == pc \in {"inited", "ready", "mem_failed"}

\* C16: after init, calc_icB is the calc_icB option if one is supplied and
\* otherwise the value calc_ic ends with (the calc_ic option, or true), in
\* whatever order the dictionary holds the options
CalcICBDefault ==
  Initialized =>
    LET ic == IF HasKey(opts, "calc_ic") THEN Value(opts, "calc_ic") ELSE TRUE
    IN /\ self.calc_ic = ic
       /\ self.calc_icB = IF HasKey(opts, "calc_icB")
                            THEN Value(opts, "calc_icB") ELSE ic
       /\ init(self0, Reverse(opts), cfg).self.calc_icB = self.calc_icB

\* init was given calc_ic = false and no calc_icB, and left calc_icB false
CalcICBFollowed ==
  /\ Initialized /\ HasKey(opts, "calc_ic") /\ ~Value(opts, "calc_ic")
  /\ ~HasKey(opts, "calc_icB") /\ ~self.calc_icB /\ Len(opts) > 1

---------------------------------------------------------------------------
(* Resetting: init, init_memory and reset over the options and settings *)

\* the settings of SpecReset: with and without quadratures, a backward
\* problem and a stop time
ResetSettings ==
  {Settings(1, 1, nq, nrx, 0, 0, stop, FALSE, "SD_GMRES", FALSE, FALSE) :
     nq \in {0, 1}, nrx \in {0, 1}, stop \in Booleans}

\* the values of first_time a caller supplies: none and all of the horizon
Fractions == {0, 1}

\* the options of SpecReset: calc_ic, first_time and extra_fsens_calc_ic
\* left out or given
ResetOptions ==
  {MakeDict([NoOptions EXCEPT !["calc_ic"] = ic, !["first_time"] = ft,
                              !["extra_fsens_calc_ic"] = ex], 1) :
     ic \in Maybe({FALSE}), ft \in Maybe(Fractions), ex \in Maybe(Booleans)}

InitReset == Start(ResetSettings, ResetOptions)

NextReset ==
  \/ DoInit
  \/ InitMemory
  \/ \E t \in ResetTimes : Reset(t)

SpecReset == InitReset /\ [][NextReset]_vars

\* the dictionary without its entry for key
Without(o, key) ==
  LET Other(e) == e[1] # key IN SelectSeq(o, Other)

\* the calls to IDACalcIC of a reset that succeeds after init with options o
CalcICs(o) ==
  Cardinality(Of(Run(ResetPlan(cfg, init(self0, o, cfg).self),
                     AllSucceed).log, "IDACalcIC"))

\* C18: with the option extra_fsens_calc_ic set, reset makes one more pass
\* over the initial conditions (IDACalcIC) than the same reset makes
\* without it
ExtraCalcIC ==
  (/\ last.op = "reset" /\ last.err = "none"
   /\ HasKey(opts, "extra_fsens_calc_ic")
   /\ Value(opts, "extra_fsens_calc_ic")) =>
    Cardinality(Of(calls, "IDACalcIC"))
      = CalcICs(Without(opts, "extra_fsens_calc_ic")) + 1

\* a reset with extra_fsens_calc_ic set succeeded with a single IDACalcIC
NoExtraCalcIC ==
  /\ last.op = "reset" /\ last.err = "none"
  /\ HasKey(opts, "extra_fsens_calc_ic")
  /\ Value(opts, "extra_fsens_calc_ic")
  /\ Cardinality(Of(calls, "IDACalcIC")) = 1
  /\ CalcICs(Without(opts, "extra_fsens_calc_ic")) = 1

\* C19: the time handed to IDACalcIC by reset is the first_time option
\* taken as a fraction of the horizon [t0, tf], and tf when first_time is
\* not supplied
FirstTimeFraction ==
  last.op = "reset" =>
    \A i \in Of(calls, "IDACalcIC") :
      calls[i].args[1] = IF HasKey(opts, "first_time")
                           THEN T0 + Value(opts, "first_time") * (TF - T0)
                           ELSE TF

\* reset handed IDACalcIC the first_time supplied, 1, as the time itself
\* and not the end of the horizon that the fraction 1 stands for
FirstTimeRaw ==
  /\ last.op = "reset" /\ last.err = "none"
  /\ HasKey(opts, "first_time") /\ Value(opts, "first_time") = 1
  /\ \E i \in Of(calls, "IDACalcIC") :
       calls[i].args[1] = 1 /\ calls[i].args[1] # TF

\* the engine functions reset calls, in order, for the settings and the
\* options of the session
ResetOrder ==
  <<"IDAReInit">>
  \o When(cfg.nq > 0, <<"IDAQuadReInit">>)
  \o When(IF HasKey(opts, "calc_ic") THEN Value(opts, "calc_ic") ELSE TRUE,
          <<"IDACalcIC", "IDAGetConsistentIC">>)
  \o When(cfg.nrx > 0, <<"IDAAdjReInit">>)
  \o When(cfg.stop_at_end, <<"IDASetStopTime">>)

\* C20: reset calls the engine in a fixed order: IDAReInit with the state
\* and init_xdot, IDAQuadReInit if nq > 0, IDACalcIC and then
\* IDAGetConsistentIC if and only if calc_ic, IDAAdjReInit if nrx > 0,
\* IDASetStopTime at tf if and only if stop_at_end; a negative status ends
\* the reset, no later call is made
ResetInOrder ==
  last.op = "reset" =>
    /\ Len(calls) <= Len(ResetOrder)
    /\ \A i \in 1..Len(calls) :
         /\ calls[i].fn = ResetOrder[i]
         /\ calls[i].flag < IDA_SUCCESS => i = Len(calls)
    /\ calls[1].args = <<T0, "xz", "init_xdot">>
    /\ \A i \in Of(calls, "IDASetStopTime") : calls[i].args = <<TF>>
    /\ last.err = "none" => Len(calls) = Len(ResetOrder)
    /\ last.err # "none" => calls[Len(calls)].flag < IDA_SUCCESS

\* a reset with quadratures, a backward problem and a stop time made all
\* six calls
ResetInFull ==
  /\ last.op = "reset" /\ last.err = "none" /\ Len(calls) = 6
  /\ calls[5].fn = "IDAAdjReInit" /\ calls[6].fn = "IDASetStopTime"

---------------------------------------------------------------------------
(* Properties of the forward pass *)

\* C21: a forward step of advance records checkpoints (IDASolveF, which
\* updates m.ncheck) if and only if the session has a backward problem
\* (nrx > 0), and the adjoint module of the engine is initialized by
\* init_memory exactly when nrx > 0: IDASolveF is never called on an
\* engine whose adjoint module was not initialized
CheckpointsWithAdjoint ==
  /\ pc \in {"ready", "running"} => (eng.adj <=> cfg.nrx > 0)
  /\ last.op = "advance" =>
       /\ Made(calls, "IDASolveF") => cfg.nrx > 0 /\ eng.adj
       /\ Made(calls, "IDASolve") => cfg.nrx = 0 /\ ~eng.adj
       /\ "m.ncheck" \in Locations => Made(calls, "IDASolveF")

\* an advance of a session with a backward problem stepped with IDASolveF
\* on an engine with its adjoint module initialized, and the checkpoint
\* counter was updated
CheckpointsRecorded ==
  /\ last.op = "advance" /\ last.err = "none" /\ cfg.nrx > 0 /\ eng.adj
  /\ Made(calls, "IDASolveF") /\ <<"m.ncheck", "IDASolveF">> \in writes

\* the calls of the last operation that returned a negative status
Negative == {i \in 1..Len(calls) : calls[i].flag < IDA_SUCCESS}

\* C24: when the forward step of advance, or the retrieval of the
\* quadratures after it, returns a negative status, advance raises an
\* error, writes none of the caller's buffers x, z, q and does not read
\* the statistics; the buffers are written only when every engine call of
\* the advance before the copy succeeded
AdvanceFailureFrame ==
  last.op = "advance" =>
    /\ (\E i \in Negative :
          calls[i].fn \in {"IDASolve", "IDASolveF", "IDAGetQuad"}) =>
         /\ last.err = "engine" /\ last.msg # <<>>
         /\ Locations \cap {"x", "z", "q", "m.stats"} = {}
         /\ ~Made(calls, "IDAGetIntegratorStats")
    /\ Locations \cap {"x", "z", "q"} # {} =>
         \A i \in Negative : calls[i].fn = "IDAGetIntegratorStats"

\* an advance stepped, the retrieval of the quadratures failed, and the
\* advance threw with the state of the memory moved and no buffer written
QuadRetrievalFailed ==
  /\ last.op = "advance" /\ last.err = "engine" /\ Stepped
  /\ \E i \in Negative : calls[i].fn = "IDAGetQuad"
  /\ "m.xz" \in Locations /\ Locations \cap {"x", "z", "q"} = {}

\* C25: after a successful reset(t, ...) the engine was re-initialized at
\* the time t the reset was given, and the session time and the time of
\* the engine agree
ResetTimesAgree ==
  (last.op = "reset" /\ last.err = "none") =>
    /\ \A i \in Of(calls, "IDAReInit") : calls[i].args[1] = last.t
    /\ m.t = eng.tn

\* a reset given a time after the start of the grid went through with the
\* engine re-initialized at the start of the grid
ResetApart ==
  /\ last.op = "reset" /\ last.err = "none" /\ last.t = Front(grid) + ttol
  /\ \E i \in Of(calls, "IDAReInit") : calls[i].args[1] = Front(grid)
  /\ m.t = last.t /\ eng.tn = Front(grid)

\* C26: an advance to the time T the forward pass has reached, made after
\* resetB or retreat moved the session to an earlier time and with no
\* reset in between, makes no forward step: the engine is not asked to
\* step to a time it has already reached
NoStepWhereReached ==
  (last.op = "advance" /\ redo) => ~Stepped

\* after a backward operation left the session behind the engine, an
\* advance to the time of the engine called IDASolveF for that time
SteppedWhereReached ==
  /\ last.op = "advance" /\ last.err = "none" /\ redo
  /\ \E i \in Of(calls, "IDASolveF") : calls[i].args[1] = eng.tn
  /\ last.t = eng.tn

---------------------------------------------------------------------------
(* The linear solver of the backward problem: init, init_memory, reset and
   resetB over the linear solver settings *)

ItSols == {"SD_GMRES", "SD_BCGSTAB", "SD_TFQMR"}

\* the settings of SpecSolverB: a backward problem, with every choice of
\* linear solver
SolverSettings ==
  {Settings(1, 1, 0, 1, 0, 0, TRUE, iter, itsol, precon, FALSE) :
     iter \in Booleans, itsol \in ItSols, precon \in Booleans}

\* calc_ic and calc_icB are switched off
SolverOptions ==
  {MakeDict([NoOptions EXCEPT !["calc_ic"] = <<FALSE>>], 1)}

InitSolverB == Start(SolverSettings, SolverOptions)

NextSolverB ==
  \/ DoInit
  \/ InitMemory
  \/ \E t \in ResetTimes : Reset(t)
  \/ \E t \in ResetBTimes : ResetB(t)

SpecSolverB == InitSolverB /\ [][NextSolverB]_vars

\* the backward counterpart of a forward solver or callback
Backward(name) ==
  CASE name = "IDASpgmr" -> "IDASpgmrB"
    [] name = "IDASpbcg" -> "IDASpbcgB"
    [] name = "IDASptfqmr" -> "IDASptfqmrB"
    [] name = "jtimes" -> "jtimesB"
    [] name = "psetup" -> "psetupB"
    [] name = "psolve" -> "psolveB"
    [] name = "lsetup" -> "lsetupB"
    [] name = "lsolve" -> "lsolveB"

\* C22: the backward problem gets the linear solver the forward problem
\* got: the Krylov solver of the same kind with a Jacobian-vector callback
\* and, exactly when use_precon is set, a preconditioner, if the forward
\* problem is iterative; the direct hooks lsetupB and lsolveB if the
\* forward problem has lsetup and lsolve
SameStrategyB ==
  (pc = "running" /\ eng.nB > 0 /\ ~m.first_callB) =>
    /\ eng.lsB = [i \in 1..Len(eng.ls) |-> Backward(eng.ls[i])]
    /\ eng.ls = IF cfg.iterative
                  THEN <<Krylov(cfg.itsol), "jtimes">>
                       \o When(cfg.use_precon, <<"psetup", "psolve">>)
                  ELSE <<"lsetup", "lsolve">>

\* a first resetB attached BiCGStab with a preconditioner to the backward
\* problem of a session whose forward problem has the same
PreconditionedB ==
  /\ last.op = "resetB" /\ last.err = "none" /\ Made(calls, "IDACreateB")
  /\ cfg.iterative /\ cfg.itsol = "SD_BCGSTAB" /\ cfg.use_precon
  /\ eng.ls = <<"IDASpbcg", "jtimes", "psetup", "psolve">>
  /\ eng.lsB = <<"IDASpbcgB", "jtimesB", "psetupB", "psolveB">>

---------------------------------------------------------------------------
(* Properties of the backward quadratures *)

\* the engine calls that initialize, configure or re-initialize the
\* backward quadratures
QuadBCalls ==
  {"IDAQuadInitB", "IDASetQuadErrConB", "IDAQuadSStolerancesB",
   "IDAQuadReInit"}

\* C23: resetB initializes and configures the backward quadratures only
\* if there are any (nrq > 0): in a session with nrq = 0 no resetB calls
\* IDAQuadInitB, IDASetQuadErrConB, IDAQuadSStolerancesB or IDAQuadReInit
QuadBOnlyWithNrq ==
  (last.op = "resetB" /\ cfg.nrq = 0) =>
    \A i \in 1..Len(calls) : calls[i].fn \notin QuadBCalls

\* the first resetB of a session without backward quadratures called
\* IDAQuadInitB and went through
QuadInitBWithoutNrq ==
  /\ last.op = "resetB" /\ last.err = "none" /\ cfg.nrq = 0
  /\ Made(calls, "IDACreateB") /\ Made(calls, "IDAQuadInitB")

---------------------------------------------------------------------------
(* The life of a session: init, init_memory, reset, resetB and the
   destructor of the memory *)

\* the settings of SpecLife: with and without a backward problem
LifeSettings ==
  {Settings(1, 1, 0, nrx, 0, 0, TRUE, FALSE, "SD_GMRES", FALSE, FALSE) :
     nrx \in {0, 1}}

\* the options of SpecLife: abstolv left out or given for the two states,
\* calc_ic and calc_icB switched off
LifeOptions ==
  {MakeDict([NoOptions EXCEPT !["abstolv"] = av,
                              !["calc_ic"] = <<FALSE>>], 1) :
     av \in Maybe({Vec(2, 1)})}

InitLife == Start(LifeSettings, LifeOptions)

NextLife ==
  \/ DoInit
  \/ InitMemory
  \/ \E t \in ResetTimes : Reset(t)
  \/ \E t \in ResetBTimes : ResetB(t)
  \/ Destroy

SpecLife == InitLife /\ [][NextLife]_vars

\* the local vectors of init_memory and resetB
Temporaries == {"nv_abstol", "id"}

\* C27: every native resource of a session is released once on every
\* path: a local vector (the tolerances nv_abstol, the partition id) that
\* init_memory or resetB created is destroyed by the time the operation
\* returns or throws; the destructor frees the engine, xzdot and rxzdot
\* if and only if they were allocated, and none of them twice
ReleasedOnce ==
  /\ \A v \in Temporaries :
       <<v, "N_VNew_Serial">> \in writes
         => <<v, "N_VDestroy_Serial">> \in writes
  /\ pc = "destroyed" =>
       /\ ~eng.created
       /\ Cardinality(Of(calls, "IDAFree")) <= 1
       /\ m.xzdot # 0 <=> <<"m.xzdot", "N_VDestroy_Serial">> \in writes
       /\ m.rxzdot # 0 <=> <<"m.rxzdot", "N_VDestroy_Serial">> \in writes

\* init_memory threw on the status of IDASetId and left the vector id it
\* had created
TemporaryLeaked ==
  /\ last.op = "init_memory" /\ last.err = "engine"
  /\ \E i \in Of(calls, "IDASetId") : calls[i].flag < IDA_SUCCESS
  /\ <<"id", "N_VNew_Serial">> \in writes
  /\ <<"id", "N_VDestroy_Serial">> \notin writes

====
